---- MODULE Spec2Model ----
(***************************************************************************)
(* Model of webhook/app.py: the Flask route POST /alert (alert_receiver).  *)
(* A request is handled by one server worker: the JSON body is validated,  *)
(* the alerts are inspected in order and the first alert named NginxDown   *)
(* runs the ansible playbook through os.system, which blocks the worker    *)
(* until the command has exited.                                           *)
(***************************************************************************)
EXTENDS Integers, Sequences, FiniteSets, TLC

\* ---------------------------------------------------------------- bounds
MaxLen == 2          \* longest alerts list a client sends
MaxWorkers == 2      \* most workers (threads/processes) the server is run with
MaxRequests == 2     \* requests accepted in one run of the model

\* ------------------------------------------------------- Python values
PyNone == [kind |-> "none", val |-> {}]
PyBool(b) == [kind |-> "bool", val |-> b]
PyInt(n) == [kind |-> "int", val |-> n]
PyStr(s) == [kind |-> "str", val |-> s]
PyList(items) == [kind |-> "list", val |-> items]
\* a dict is the set of its <<key, value>> pairs, keys being strings
PyDict(pairs) == [kind |-> "dict", val |-> pairs]

\* spelling of the string literals that occur as a request body
Chars(s) ==
    CASE s = "" -> <<>>
      [] s = "foo" -> <<"f", "o", "o">>
      [] s = "alerts" -> <<"a", "l", "e", "r", "t", "s">>
      [] s = "my alerts!" -> <<"m", "y", " ", "a", "l", "e", "r", "t", "s", "!">>

\* str.__contains__: sub occurs in s as a contiguous run of characters
StrContains(s, sub) ==
    LET cs == Chars(s)
        cu == Chars(sub)
    IN \E k \in 0..(Len(cs) - Len(cu)) :
           \A j \in 1..Len(cu) : cs[k + j] = cu[j]

DictKeys(d) == {p[1] : p \in d.val}
DictGet(d, key) == (CHOOSE p \in d.val : p[1] = key)[2]

\* bool(v), as `not data` evaluates it
Truthy(v) ==
    CASE v.kind = "none" -> FALSE
      [] v.kind = "bool" -> v.val
      [] v.kind = "int" -> v.val # 0
      [] v.kind = "str" -> v.val # ""
      [] v.kind = "list" -> v.val # <<>>
      [] v.kind = "dict" -> v.val # {}

\* `key in v` for a str key: "yes", "no", or the exception raised
PyIn(key, v) ==
    CASE v.kind = "dict" -> IF key \in DictKeys(v) THEN "yes" ELSE "no"
      [] v.kind = "str" -> IF StrContains(v.val, key) THEN "yes" ELSE "no"
      [] v.kind = "list" ->
             IF \E k \in 1..Len(v.val) : v.val[k] = PyStr(key) THEN "yes" ELSE "no"
      [] OTHER -> "TypeError"

\* v[key] for a str key: the value, or the exception raised
Raise(exc) == [kind |-> "raise", val |-> exc]
IsRaise(v) == v.kind = "raise"
PyGetItem(v, key) ==
    CASE v.kind = "dict" -> IF key \in DictKeys(v) THEN DictGet(v, key) ELSE Raise("KeyError")
      [] OTHER -> Raise("TypeError")

\* v.get(key, default): only a dict has the method
PyDictGet(v, key, default) ==
    CASE v.kind = "dict" -> IF key \in DictKeys(v) THEN DictGet(v, key) ELSE default
      [] OTHER -> Raise("AttributeError")

\* iter(v) of the `for` statement: a list gives its items, None and numbers
\* are not iterable
PyIter(v) ==
    CASE v.kind = "list" -> v
      [] v.kind \in {"none", "int", "bool"} -> Raise("TypeError")

\* ------------------------------------------------------------ the inputs
\* one alert of a batch: without "labels", with labels lacking "alertname",
\* and with an alertname that is / is not the one the handler knows
AlertSamples ==
    { PyDict({}),
      PyDict({<<"labels", PyDict({})>>}),
      PyDict({<<"labels", PyDict({<<"alertname", PyStr("NginxDown")>>})>>}),
      PyDict({<<"labels", PyDict({<<"alertname", PyStr("DiskFull")>>})>>}) }

AlertLists == UNION { [1..n -> AlertSamples] : n \in 0..MaxLen }

\* what request.get_json() hands to the handler
Bodies ==
    { PyNone, PyBool(TRUE), PyBool(FALSE), PyInt(0), PyInt(5),
      PyStr(""), PyStr("foo"), PyStr("alerts"), PyStr("my alerts!"),
      PyList(<<>>), PyList(<<PyStr("foo")>>), PyList(<<PyStr("alerts")>>),
      PyDict({}), PyDict({<<"status", PyStr("foo")>>}),
      PyDict({<<"alerts", PyNone>>}) }
    \cup { PyDict({<<"alerts", PyList(as)>>}) : as \in AlertLists }

\* the batches of the documented scenarios: one NginxDown alert, one DiskFull
\* alert, and a body without the alerts key
Scenarios ==
    { PyDict({<<"alerts", PyList(<<PyDict({<<"labels", PyDict({<<"alertname", PyStr("NginxDown")>>})>>})>>)>>}),
      PyDict({<<"alerts", PyList(<<PyDict({<<"labels", PyDict({<<"alertname", PyStr("DiskFull")>>})>>})>>)>>}),
      PyDict({}) }

\* the bodies sent to a worker: every body reaches the first worker, the
\* scenario batches reach the workers that run beside it
BodiesFor(w) == IF w = 1 THEN Bodies ELSE Scenarios

\* exit statuses of the ansible-playbook command (0 success, 2 failed hosts)
ExitStatuses == {0, 2}

\* ------------------------------------------------------------- the state
Workers == 1..MaxWorkers

VARIABLES
    nworkers,   \* workers the server runs requests on
    pc,         \* per worker: "idle", "loop", "system", "done"
    data,       \* per worker: the body of the request it handles
    i,          \* per worker: alerts of the batch inspected so far
    cmd,        \* per worker: the external command of os.system
    invoked,    \* per worker: os.system calls made for this request
    resp,       \* per worker: the response of the request
    accepted,   \* requests accepted so far
    execTotal,  \* os.system calls made by the process so far
    owed,       \* accepted requests whose batch reaches an NginxDown alert
    priorFailure, \* some command has exited with a nonzero status
    lastStarted \* the worker whose os.system call began last (0: none yet)

vars == <<nworkers, pc, data, i, cmd, invoked, resp, accepted, execTotal, owed,
          priorFailure, lastStarted>>

NoResponse == [status |-> 0, body |-> ""]
Response(body, status) == [status |-> status, body |-> body]
\* Flask's answer to an exception the view function does not catch
InternalServerError == Response("Internal Server Error", 500)

NoCommand == [state |-> "none", status |-> 0]
Running == [state |-> "running", status |-> 0]
Exited(st) == [state |-> "exited", status |-> st]

Init ==
    /\ nworkers \in 1..MaxWorkers
    /\ pc = [w \in Workers |-> "idle"]
    /\ data = [w \in Workers |-> PyNone]
    /\ i = [w \in Workers |-> 0]
    /\ cmd = [w \in Workers |-> NoCommand]
    /\ invoked = [w \in Workers |-> 0]
    /\ resp = [w \in Workers |-> NoResponse]
    /\ accepted = 0
    /\ execTotal = 0
    /\ owed = 0
    /\ priorFailure = FALSE
    /\ lastStarted = 0

\* ------------------------------------------------------- the handler
\* variant of line 11 that drops `not data`
InvalidKeyOnly(d) ==
    CASE PyIn("alerts", d) = "no" -> "yes"
      [] PyIn("alerts", d) = "yes" -> "no"
      [] OTHER -> "TypeError"

\* line 11: `not data or "alerts" not in data`
Invalid(d) ==
    IF ~Truthy(d) THEN "yes"
    ELSE CASE PyIn("alerts", d) = "no" -> "yes"
           [] PyIn("alerts", d) = "yes" -> "no"
           [] OTHER -> "TypeError"

\* variant of line 16 that subscripts: alert["labels"]["alertname"]
AlertnameStrict(alert) ==
    LET labels == PyGetItem(alert, "labels")
    IN IF IsRaise(labels) THEN labels ELSE PyGetItem(labels, "alertname")

\* line 16: alert["labels"].get("alertname", "")
Alertname(alert) ==
    LET labels == PyGetItem(alert, "labels")
    IN IF IsRaise(labels) THEN labels
       ELSE PyDictGet(labels, "alertname", PyStr(""))

\* variant of line 18 that restarts nginx once per process only
MatchesOnce(alertname) == alertname = PyStr("NginxDown") /\ execTotal = 0

\* line 18
Matches(alertname) == alertname = PyStr("NginxDown")

\* line 15: the sequence the for statement walks
Alerts(d) ==
    LET v == PyGetItem(d, "alerts")
    IN IF IsRaise(v) THEN v ELSE PyIter(v)

\* what the batch alone determines: the walk of lines 15-25 over the alerts
\* from position k on, as [resp, invoked]
RECURSIVE Walk(_, _)
Walk(items, k) ==
    IF k > Len(items)
    THEN [resp |-> Response("No matching alert found", 200), invoked |-> 0]
    ELSE LET name == Alertname(items[k])
         IN IF IsRaise(name)
            THEN [resp |-> InternalServerError, invoked |-> 0]
            ELSE IF name = PyStr("NginxDown")
                 THEN [resp |-> Response("Recovery triggered", 200), invoked |-> 1]
                 ELSE Walk(items, k + 1)

BatchOutcome(d) ==
    CASE Invalid(d) = "yes" -> [resp |-> Response("Invalid alert", 400), invoked |-> 0]
      [] Invalid(d) = "TypeError" -> [resp |-> InternalServerError, invoked |-> 0]
      [] OTHER -> IF IsRaise(Alerts(d))
                  THEN [resp |-> InternalServerError, invoked |-> 0]
                  ELSE Walk(Alerts(d).val, 1)

\* a worker of the server that can take the next request
WorkerFree(w) == w <= nworkers /\ pc[w] = "idle"

\* lines 8-12: request.get_json() has returned d (None for a body that is
\* absent or the JSON null) and the body is validated
Receive(w, d) ==
    /\ WorkerFree(w)
    /\ accepted < MaxRequests
    /\ accepted' = accepted + 1
    /\ data' = [data EXCEPT ![w] = d]
    /\ owed' = owed + BatchOutcome(d).invoked
    /\ CASE Invalid(d) = "yes" ->
              /\ resp' = [resp EXCEPT ![w] = Response("Invalid alert", 400)]
              /\ pc' = [pc EXCEPT ![w] = "done"]
         [] Invalid(d) = "TypeError" ->
              /\ resp' = [resp EXCEPT ![w] = InternalServerError]
              /\ pc' = [pc EXCEPT ![w] = "done"]
         [] OTHER ->
              /\ pc' = [pc EXCEPT ![w] = "loop"]
              /\ UNCHANGED resp
    /\ UNCHANGED <<nworkers, i, cmd, invoked, execTotal, priorFailure, lastStarted>>

\* lines 15-21 and 25: one turn of the for statement, up to the call of
\* os.system for the alert named NginxDown
LoopBody(w) ==
    /\ pc[w] = "loop"
    /\ LET items == Alerts(data[w])
       IN IF IsRaise(items)
          THEN /\ resp' = [resp EXCEPT ![w] = InternalServerError]
               /\ pc' = [pc EXCEPT ![w] = "done"]
               /\ UNCHANGED <<i, cmd, invoked, execTotal, lastStarted>>
          ELSE IF i[w] = Len(items.val)
          THEN /\ resp' = [resp EXCEPT ![w] = Response("No matching alert found", 200)]
               /\ pc' = [pc EXCEPT ![w] = "done"]
               /\ UNCHANGED <<i, cmd, invoked, execTotal, lastStarted>>
          ELSE LET alertname == Alertname(items.val[i[w] + 1])
               IN /\ i' = [i EXCEPT ![w] = i[w] + 1]
                  /\ IF IsRaise(alertname)
                     THEN /\ resp' = [resp EXCEPT ![w] = InternalServerError]
                          /\ pc' = [pc EXCEPT ![w] = "done"]
                          /\ UNCHANGED <<cmd, invoked, execTotal, lastStarted>>
                     ELSE IF Matches(alertname)
                     THEN /\ pc' = [pc EXCEPT ![w] = "system"]
                          /\ cmd' = [cmd EXCEPT ![w] = Running]
                          /\ invoked' = [invoked EXCEPT ![w] = invoked[w] + 1]
                          /\ execTotal' = execTotal + 1
                          /\ lastStarted' = w
                          /\ UNCHANGED resp
                     ELSE UNCHANGED <<pc, cmd, invoked, execTotal, lastStarted, resp>>
    /\ UNCHANGED <<nworkers, data, accepted, owed, priorFailure>>

\* variant that takes a process-wide lock around the remediation
LoopStepLocked(w) ==
    /\ \A v \in Workers \ {w} : pc[v] # "system"
    /\ LoopBody(w)

LoopStep(w) == LoopBody(w)

\* the ansible-playbook process of os.system ends, with some exit status
CommandExit(w, st) ==
    /\ pc[w] = "system"
    /\ cmd[w] = Running
    /\ cmd' = [cmd EXCEPT ![w] = Exited(st)]
    /\ priorFailure' = (priorFailure \/ st # 0)
    /\ UNCHANGED <<nworkers, pc, data, i, invoked, resp, accepted, execTotal, owed,
                   lastStarted>>

\* variant of line 23 without the return: the loop goes on to the next alert
SystemReturnKeepsLooping(w) ==
    /\ pc[w] = "system"
    /\ cmd[w].state = "exited"
    /\ pc' = [pc EXCEPT ![w] = "loop"]
    /\ cmd' = [cmd EXCEPT ![w] = NoCommand]
    /\ UNCHANGED <<nworkers, data, i, invoked, resp, accepted, execTotal, owed,
                   priorFailure, lastStarted>>

\* variant of line 21 that starts the command without waiting for it
SystemReturnNoWait(w) ==
    /\ pc[w] = "system"
    /\ resp' = [resp EXCEPT ![w] = Response("Recovery triggered", 200)]
    /\ pc' = [pc EXCEPT ![w] = "done"]
    /\ UNCHANGED <<nworkers, data, i, cmd, invoked, accepted, execTotal, owed,
                   priorFailure, lastStarted>>

\* lines 21-23: os.system returns once the command has exited, its value is
\* dropped, and the handler returns
SystemReturn(w) ==
    /\ pc[w] = "system"
    /\ cmd[w].state = "exited"
    /\ resp' = [resp EXCEPT ![w] = Response("Recovery triggered", 200)]
    /\ pc' = [pc EXCEPT ![w] = "done"]
    /\ UNCHANGED <<nworkers, data, i, cmd, invoked, accepted, execTotal, owed,
                   priorFailure, lastStarted>>

\* the response is sent and the worker is free again
Deliver(w) ==
    /\ pc[w] = "done"
    /\ pc' = [pc EXCEPT ![w] = "idle"]
    /\ data' = [data EXCEPT ![w] = PyNone]
    /\ i' = [i EXCEPT ![w] = 0]
    /\ cmd' = [cmd EXCEPT ![w] = NoCommand]
    /\ invoked' = [invoked EXCEPT ![w] = 0]
    /\ resp' = [resp EXCEPT ![w] = NoResponse]
    /\ UNCHANGED <<nworkers, accepted, execTotal, owed, priorFailure, lastStarted>>

Next ==
    \/ \E w \in Workers : \E d \in BodiesFor(w) : Receive(w, d)
    \/ \E w \in Workers : LoopStep(w)
    \/ \E w \in Workers, st \in ExitStatuses : CommandExit(w, st)
    \/ \E w \in Workers : SystemReturn(w)
    \/ \E w \in Workers : Deliver(w)

Spec == Init /\ [][Next]_vars

\* a worker whose os.system call has returned goes on to the return statement;
\* nothing makes the command itself exit
SpecLive == Spec /\ \A w \in Workers : WF_vars(SystemReturn(w))

\* ------------------------------------------------- vocabulary of the claims
Recovery == Response("Recovery triggered", 200)
NoMatch == Response("No matching alert found", 200)
InvalidAlert == Response("Invalid alert", 400)

\* the body is a JSON object whose "alerts" is a sequence
IsBatch(d) ==
    /\ d.kind = "dict"
    /\ "alerts" \in DictKeys(d)
    /\ DictGet(d, "alerts").kind = "list"
BatchItems(d) == DictGet(d, "alerts").val
BatchOf(items) == PyDict({<<"alerts", PyList(items)>>})

\* the alert carries labels.alertname = "NginxDown"
NamedNginx(alert) ==
    \E p \in alert.val :
        /\ p[1] = "labels"
        /\ p[2].kind = "dict"
        /\ <<"alertname", PyStr("NginxDown")>> \in p[2].val

\* the alert carries a labels object that has no "alertname" key
LacksName(alert) ==
    \E p \in alert.val :
        /\ p[1] = "labels"
        /\ p[2].kind = "dict"
        /\ "alertname" \notin DictKeys(p[2])

MatchPositions(items) == {k \in 1..Len(items) : NamedNginx(items[k])}
FirstMatch(items) ==
    CHOOSE k \in MatchPositions(items) : \A j \in MatchPositions(items) : k <= j

Result(w) == [resp |-> resp[w], invoked |-> invoked[w]]
InFlight == {w \in Workers : pc[w] = "system"}
Busy == {w \in Workers : pc[w] # "idle"}

\* ----------------------------------------------------------------- C1
\* C1: a batch with an alerts sequence runs the command at most once, and a
\* batch holding an alert named NginxDown runs it exactly once and answers
\* 200 "Recovery triggered".
C1_OncePerBatch ==
    \A w \in Workers :
        (pc[w] = "done" /\ IsBatch(data[w])) =>
            /\ invoked[w] <= 1
            /\ (MatchPositions(BatchItems(data[w])) # {} =>
                    invoked[w] = 1 /\ resp[w] = Recovery)

\* ----------------------------------------------------------------- C2
\* C2: first match wins. Of a batch holding a matching alert no alert after
\* the first matching one is inspected, the command runs at most once and
\* only for that alert, and the result is that of the batch cut after it.
C2_FirstMatchWins ==
    \A w \in Workers :
        (IsBatch(data[w]) /\ MatchPositions(BatchItems(data[w])) # {}) =>
            LET items == BatchItems(data[w])
                fm == FirstMatch(items)
            IN /\ i[w] <= fm
               /\ invoked[w] <= 1
               /\ (invoked[w] = 1 => i[w] = fm)
               /\ (pc[w] = "done" =>
                       Result(w) = BatchOutcome(BatchOf(SubSeq(items, 1, fm))))

C2_Witness ==
    \E w \in Workers :
        /\ pc[w] = "done"
        /\ IsBatch(data[w])
        /\ Cardinality(MatchPositions(BatchItems(data[w]))) >= 2
        /\ invoked[w] = 1
        /\ resp[w] = Recovery

\* ----------------------------------------------------------------- C3
\* C3: a batch none of whose alerts is named NginxDown (the empty batch
\* included) never runs the command and answers 200 "No matching alert found".
C3_NoMatch ==
    \A w \in Workers :
        (pc[w] = "done" /\ IsBatch(data[w])
            /\ MatchPositions(BatchItems(data[w])) = {}) =>
            invoked[w] = 0 /\ resp[w] = NoMatch

\* ----------------------------------------------------------------- C4
\* C4: an absent body, an empty object and an object without the key
\* "alerts" are answered 400 "Invalid alert" and never run the command.
MissingAlerts(d) ==
    \/ d = PyNone
    \/ d.kind = "dict" /\ "alerts" \notin DictKeys(d)

C4_InvalidPayload ==
    \A w \in Workers :
        (pc[w] # "idle" /\ MissingAlerts(data[w])) =>
            /\ pc[w] = "done"
            /\ resp[w] = InvalidAlert
            /\ invoked[w] = 0

C4_Witness ==
    /\ \E w \in Workers : pc[w] = "done" /\ data[w] = PyNone /\ resp[w] = InvalidAlert
    /\ execTotal = 0

\* ----------------------------------------------------------------- C5
\* C5: a body that is not an object (string, number, list, boolean) is
\* answered 400 "Invalid alert" and never runs the command.
C5_NonObjectBody ==
    \A w \in Workers :
        (pc[w] = "done" /\ data[w].kind \in {"str", "int", "list", "bool"}) =>
            resp[w] = InvalidAlert /\ invoked[w] = 0

\* ----------------------------------------------------------------- C6
\* C6: the response of a request whose command exited nonzero differs from
\* the response of a request whose command exited with status 0.
C6_FailureVisible ==
    \A w1, w2 \in Workers :
        (/\ pc[w1] = "done" /\ invoked[w1] = 1 /\ cmd[w1] = Exited(0)
         /\ pc[w2] = "done" /\ invoked[w2] = 1 /\ cmd[w2].state = "exited"
         /\ cmd[w2].status # 0) =>
            resp[w1] # resp[w2]

\* ----------------------------------------------------------------- C7
\* C7: an alert whose labels have no "alertname" is no error: once it is
\* inspected the loop goes on (or ends, when it was the last alert) without
\* running the command, and the batch ends as it would without such alerts.
C7_MissingNameSkipped ==
    \A w \in Workers :
        IsBatch(data[w]) =>
            LET items == BatchItems(data[w])
            IN /\ (i[w] >= 1 /\ LacksName(items[i[w]])) =>
                      /\ invoked[w] = 0
                      /\ \/ pc[w] = "loop"
                         \/ pc[w] = "done" /\ i[w] = Len(items) /\ resp[w] = NoMatch
               /\ (pc[w] = "done" /\ \E k \in 1..Len(items) : LacksName(items[k])) =>
                      Result(w) =
                          BatchOutcome(BatchOf(SelectSeq(items, LAMBDA a : ~LacksName(a))))

C7_Witness ==
    \E w \in Workers :
        /\ pc[w] = "done"
        /\ IsBatch(data[w])
        /\ Len(BatchItems(data[w])) >= 2
        /\ LacksName(BatchItems(data[w])[1])
        /\ i[w] = 2
        /\ invoked[w] = 1
        /\ resp[w] = Recovery

\* ----------------------------------------------------------------- C8
\* C8: a request's response and number of command runs are those its own
\* batch determines, whatever was handled before; and once every accepted
\* request has been answered the command has run once per accepted request
\* whose batch reaches an NginxDown alert (no de-duplication).
C8_Independent ==
    /\ \A w \in Workers : pc[w] = "done" => Result(w) = BatchOutcome(data[w])
    /\ execTotal <= owed
    /\ Busy = {} => execTotal = owed

C8_Witness ==
    /\ Busy = {}
    /\ accepted >= 2
    /\ execTotal = accepted
    /\ priorFailure

\* ----------------------------------------------------------------- C9
\* C9: the remediation is synchronous and unbounded. A request inside
\* os.system has no response, a "Recovery triggered" response exists only
\* once the command has exited, no step takes a request out of os.system
\* while its command runs, and once the command has exited the request is
\* answered.
C9_Synchronous ==
    /\ [](\A w \in Workers :
              /\ pc[w] = "system" => resp[w] = NoResponse
              /\ resp[w] = Recovery => cmd[w].state = "exited")
    /\ [][\A w \in Workers :
              (pc[w] = "system" /\ cmd[w] = Running) =>
                  (pc'[w] = "system" /\ resp'[w] = NoResponse)]_vars
    /\ \A w \in Workers :
           (pc[w] = "system" /\ cmd[w].state = "exited")
               ~> (pc[w] = "done" /\ resp[w] = Recovery)

C9_Witness ==
    \E w \in Workers :
        /\ pc[w] = "done"
        /\ resp[w] = Recovery
        /\ cmd[w].state = "exited"
        /\ invoked[w] = 1

\* ---------------------------------------------------------------- C10
\* C10: no lock guards the remediation. A request about to inspect an
\* NginxDown alert can always go on to run the command, whatever the other
\* workers do; the remediations in flight never outnumber the workers; and a
\* single worker handles one request at a time, taking the next only after
\* the response of the previous one.
AtMatch(w) ==
    /\ pc[w] = "loop"
    /\ IsBatch(data[w])
    /\ i[w] < Len(BatchItems(data[w]))
    /\ NamedNginx(BatchItems(data[w])[i[w] + 1])

C10_NoLock ==
    /\ \A w \in Workers : AtMatch(w) => ENABLED LoopStep(w)
    /\ Cardinality(InFlight) <= nworkers
    /\ nworkers = 1 => Cardinality(Busy) <= 1

\* two remediations in flight, the one of worker 2 started first
C10_Witness ==
    /\ nworkers >= 2
    /\ pc[1] = "system" /\ cmd[1] = Running
    /\ pc[2] = "system" /\ cmd[2] = Running
    /\ lastStarted = 1

\* two remediations in flight, the one of worker 1 started first
C10_WitnessOtherOrder ==
    /\ nworkers >= 2
    /\ pc[1] = "system" /\ cmd[1] = Running
    /\ pc[2] = "system" /\ cmd[2] = Running
    /\ lastStarted = 2
====
